---- MODULE Spec2Model ----
(***************************************************************************)
(* qrterm: rendering of a QR dot matrix as terminal block characters.      *)
(*                                                                         *)
(* src/src/image.rs  Dot, Point, HalfPoint, Grid (the Canvas) and Image    *)
(* src/src/main.rs   the emission loop that prints an Image                *)
(*                                                                         *)
(* The model follows one run of the pipeline: Grid::new, any number of     *)
(* Grid::draw_dark_pixel calls, Grid::into_image, then the print loop of   *)
(* main.  A panic ends the run.  Coordinates and sizes are u32 widened to  *)
(* usize; on the 64-bit targets modelled here x + y * width cannot wrap,   *)
(* so the arithmetic is plain integer arithmetic.                          *)
(***************************************************************************)
EXTENDS Integers, Sequences, FiniteSets, TLC

\* Largest width, height and buffer length (width * height) given to
\* Grid::new.
MaxW == 2
MaxH == 4
MaxDots == 8
\* Largest width, height and buffer length of the two surfaces compared in
\* SpecPair.
PairMaxW == 2
PairMaxH == 2
PairMaxDots == 5

(***************************************************************************)
(* Values                                                                  *)
(***************************************************************************)
Black == "Black"
White == "White"
Dot == {Black, White}

None == [some |-> FALSE]
Some(v) == [some |-> TRUE, val |-> v]

Point(top, bot) == [top |-> top, bot |-> bot]
HalfPoint(dot) == <<dot>>

\* Unicode scalar values of the four glyphs and of the line terminator.
FullBlock == 9608
UpperHalf == 9600
LowerHalf == 9604
Space == 32
Newline == 10

OutOfBounds == "pixel out of bounds!"
DivideByZero == "attempt to divide by zero"

(***************************************************************************)
(* Point::to_char and HalfPoint::to_char                                   *)
(***************************************************************************)
\* Variant: the two half blocks exchanged.
Point_to_char_swapped(self) ==
    CASE self.top = Black /\ self.bot = Black -> FullBlock
      [] self.top = Black /\ self.bot = White -> LowerHalf
      [] self.top = White /\ self.bot = Black -> UpperHalf
      [] self.top = White /\ self.bot = White -> Space

Point_to_char(self) ==
    CASE self.top = Black /\ self.bot = Black -> FullBlock
      [] self.top = Black /\ self.bot = White -> UpperHalf
      [] self.top = White /\ self.bot = Black -> LowerHalf
      [] self.top = White /\ self.bot = White -> Space

HalfPoint_to_char(self) ==
    CASE self[1] = Black -> UpperHalf
      [] self[1] = White -> Space

(***************************************************************************)
(* Grid                                                                    *)
(***************************************************************************)
\* Variant: the buffer filled with the dark pixel.
new_filled_dark(width, height, dark_pixel, light_pixel) ==
    [dots  |-> [k \in 1..(width * height) |-> dark_pixel],
     width |-> width,
     dark  |-> dark_pixel]

\* Grid::new: vec![light_pixel; w * h], the width and the dark pixel.
new(width, height, dark_pixel, light_pixel) ==
    [dots  |-> [k \in 1..(width * height) |-> light_pixel],
     width |-> width,
     dark  |-> dark_pixel]

\* Variant: only the index is checked, not x against the width.
draw_dark_pixel_unchecked_x(self, x, y) ==
    LET i == x + y * self.width IN
    IF i >= Len(self.dots)
    THEN [panic |-> Some(OutOfBounds), self |-> self]
    ELSE [panic |-> None,
          self  |-> [self EXCEPT !.dots[i + 1] = self.dark]]

\* Variant: Dot::Black written instead of the grid's dark pixel.
draw_dark_pixel_literal(self, x, y) ==
    LET i == x + y * self.width IN
    IF x >= self.width \/ i >= Len(self.dots)
    THEN [panic |-> Some(OutOfBounds), self |-> self]
    ELSE [panic |-> None,
          self  |-> [self EXCEPT !.dots[i + 1] = Black]]

\* Variant: the index computed column-major.
draw_dark_pixel_transposed(self, x, y) ==
    LET i == y + x * self.width IN
    IF x >= self.width \/ i >= Len(self.dots)
    THEN [panic |-> Some(OutOfBounds), self |-> self]
    ELSE [panic |-> None,
          self  |-> [self EXCEPT !.dots[i + 1] = self.dark]]

\* Variant: the slot is flipped instead of set.
draw_dark_pixel_toggle(self, x, y) ==
    LET i == x + y * self.width IN
    IF x >= self.width \/ i >= Len(self.dots)
    THEN [panic |-> Some(OutOfBounds), self |-> self]
    ELSE [panic |-> None,
          self  |-> [self EXCEPT !.dots[i + 1] =
                        IF self.dots[i + 1] = self.dark
                        THEN CHOOSE d \in Dot : d # self.dark
                        ELSE self.dark]]

\* Grid::draw_dark_pixel: the panic (if any) and the grid after the call.
\* dots is 1-based here, so slot i of the Vec is dots[i + 1].
draw_dark_pixel(self, x, y) ==
    LET i == x + y * self.width IN
    IF x >= self.width \/ i >= Len(self.dots)
    THEN [panic |-> Some(OutOfBounds), self |-> self]
    ELSE [panic |-> None,
          self  |-> [self EXCEPT !.dots[i + 1] = self.dark]]

\* slice::chunks(n) for n > 0: consecutive pieces of n elements, the last
\* one shorter when n does not divide the length.
RECURSIVE Chunks(_, _)
Chunks(s, n) ==
    IF Len(s) = 0 THEN <<>>
    ELSE IF Len(s) <= n THEN <<s>>
    ELSE <<SubSeq(s, 1, n)>> \o Chunks(SubSeq(s, n + 1, Len(s)), n)

\* The body of the for loop of into_image, from chunk k on.
RECURSIVE ForChunks(_, _, _, _, _)
ForChunks(chunks, k, w, lines, last_line) ==
    IF k > Len(chunks) THEN [lines |-> lines, last_line |-> last_line]
    ELSE LET line == chunks[k] IN
         IF Len(line) = w * 2
         THEN ForChunks(chunks, k + 1, w,
                        Append(lines, [x \in 1..w |-> Point(line[x], line[w + x])]),
                        last_line)
         ELSE ForChunks(chunks, k + 1, w, lines,
                        Some([x \in 1..Len(line) |-> HalfPoint(line[x])]))

\* Variant of the loop: top and bot taken from the wrong halves of the chunk.
RECURSIVE ForChunksSwapped(_, _, _, _, _)
ForChunksSwapped(chunks, k, w, lines, last_line) ==
    IF k > Len(chunks) THEN [lines |-> lines, last_line |-> last_line]
    ELSE LET line == chunks[k] IN
         IF Len(line) = w * 2
         THEN ForChunksSwapped(chunks, k + 1, w,
                        Append(lines, [x \in 1..w |-> Point(line[w + x], line[x])]),
                        last_line)
         ELSE ForChunksSwapped(chunks, k + 1, w, lines,
                        Some([x \in 1..Len(line) |-> HalfPoint(line[x])]))

into_image_swapped(self) ==
    LET w == self.width IN
    IF w = 0
    THEN [panic |-> Some(DivideByZero),
          image |-> [lines |-> <<>>, last_line |-> None]]
    ELSE [panic |-> None,
          image |-> ForChunksSwapped(Chunks(self.dots, w * 2), 1, w, <<>>, None)]

\* Variant: chunks_exact, which leaves the short last chunk out.
into_image_exact(self) ==
    LET w == self.width
        IsFull(c) == Len(c) = w * 2
    IN
    IF w = 0
    THEN [panic |-> Some(DivideByZero),
          image |-> [lines |-> <<>>, last_line |-> None]]
    ELSE [panic |-> None,
          image |-> ForChunks(SelectSeq(Chunks(self.dots, w * 2), IsFull),
                              1, w, <<>>, None)]

\* Grid::into_image: the panic (if any) and the Image.
into_image(self) ==
    LET w == self.width IN
    IF w = 0
    THEN [panic |-> Some(DivideByZero),
          image |-> [lines |-> <<>>, last_line |-> None]]
    ELSE [panic |-> None,
          image |-> ForChunks(Chunks(self.dots, w * 2), 1, w, <<>>, None)]

(***************************************************************************)
(* State                                                                   *)
(***************************************************************************)
VARIABLES
    pc,        \* "draw", "print_lines", "print_last", "done", "panicked"
    grid,      \* the Grid (kept after into_image consumed it, for reference)
    height,    \* the height given to Grid::new (the Grid does not store it)
    light,     \* the light pixel given to Grid::new (not stored either)
    drawn,     \* history: coordinates inside the surface that were drawn
    panic,     \* None, or Some(message) once a call panicked
    call,      \* history: the most recent call on the canvas and its arguments
    image,     \* the Image returned by into_image
    li, ci,    \* position of the print loops of main (1-based)
    out,       \* the characters written to standard output
    grid2,     \* SpecPair: the second surface
    drawn2,    \* SpecPair: history of the second surface
    image2     \* SpecPair: the Image of the second surface

vars == <<pc, grid, height, light, drawn, panic, call, image, li, ci, out,
          grid2, drawn2, image2>>

NoImage == [lines |-> <<>>, last_line |-> None]
NoGrid == [dots |-> <<>>, width |-> 0, dark |-> Black]

Init ==
    \E w \in 0..MaxW, h \in 0..MaxH, dark_pixel \in Dot, light_pixel \in Dot :
        /\ w * h <= MaxDots
        /\ grid = new(w, h, dark_pixel, light_pixel)
        /\ height = h
        /\ light = light_pixel
        /\ pc = "draw"
        /\ drawn = {}
        /\ panic = None
        /\ call = [op |-> "new"]
        /\ image = NoImage
        /\ li = 1
        /\ ci = 1
        /\ out = <<>>
        /\ grid2 = NoGrid
        /\ drawn2 = {}
        /\ image2 = NoImage

InRange(x, y) == x < grid.width /\ y < height

\* One call of draw_dark_pixel by the renderer.
DrawDarkPixel(x, y) ==
    /\ pc = "draw"
    /\ LET r == draw_dark_pixel(grid, x, y) IN
       /\ grid' = r.self
       /\ panic' = r.panic
       /\ pc' = IF r.panic.some THEN "panicked" ELSE "draw"
    /\ call' = [op |-> "draw_dark_pixel", x |-> x, y |-> y]
    /\ drawn' = IF InRange(x, y) THEN drawn \cup {<<x, y>>} ELSE drawn
    /\ UNCHANGED <<height, light, image, li, ci, out, grid2, drawn2, image2>>

\* build() hands the canvas to into_image; main then enters its first loop.
IntoImage ==
    /\ pc = "draw"
    /\ LET r == into_image(grid) IN
       /\ panic' = r.panic
       /\ image' = r.image
       /\ pc' = IF r.panic.some THEN "panicked" ELSE "print_lines"
    /\ call' = [op |-> "into_image"]
    /\ UNCHANGED <<grid, height, light, drawn, li, ci, out,
                   grid2, drawn2, image2>>

\* print!("{}", point.to_char()) in the loops over image.lines.
PrintPoint ==
    /\ pc = "print_lines"
    /\ li <= Len(image.lines)
    /\ ci <= Len(image.lines[li])
    /\ out' = Append(out, Point_to_char(image.lines[li][ci]))
    /\ ci' = ci + 1
    /\ UNCHANGED <<pc, grid, height, light, drawn, panic, call, image, li,
                   grid2, drawn2, image2>>

\* Variant: the line ends without its terminator.
PrintLnMissing ==
    /\ pc = "print_lines"
    /\ li <= Len(image.lines)
    /\ ci > Len(image.lines[li])
    /\ li' = li + 1
    /\ ci' = 1
    /\ UNCHANGED <<pc, grid, height, light, drawn, panic, call, image, out,
                   grid2, drawn2, image2>>

\* println!() at the end of one line of image.lines.
PrintLn ==
    /\ pc = "print_lines"
    /\ li <= Len(image.lines)
    /\ ci > Len(image.lines[li])
    /\ out' = Append(out, Newline)
    /\ li' = li + 1
    /\ ci' = 1
    /\ UNCHANGED <<pc, grid, height, light, drawn, panic, call, image,
                   grid2, drawn2, image2>>

\* The first loop is over: if let Some(last_line) = &image.last_line.
EndLines ==
    /\ pc = "print_lines"
    /\ li > Len(image.lines)
    /\ pc' = IF image.last_line.some THEN "print_last" ELSE "done"
    /\ ci' = 1
    /\ UNCHANGED <<grid, height, light, drawn, panic, call, image, li, out,
                   grid2, drawn2, image2>>

\* print!("{}", point.to_char()) in the loop over last_line.
PrintHalfPoint ==
    /\ pc = "print_last"
    /\ ci <= Len(image.last_line.val)
    /\ out' = Append(out, HalfPoint_to_char(image.last_line.val[ci]))
    /\ ci' = ci + 1
    /\ UNCHANGED <<pc, grid, height, light, drawn, panic, call, image, li,
                   grid2, drawn2, image2>>

\* println!() after last_line, then Ok(()).
PrintLastLn ==
    /\ pc = "print_last"
    /\ ci > Len(image.last_line.val)
    /\ out' = Append(out, Newline)
    /\ pc' = "done"
    /\ UNCHANGED <<grid, height, light, drawn, panic, call, image, li, ci,
                   grid2, drawn2, image2>>

Next ==
    \/ \E x \in 0..MaxW, y \in 0..MaxH : DrawDarkPixel(x, y)
    \/ IntoImage
    \/ PrintPoint
    \/ PrintLn
    \/ EndLines
    \/ PrintHalfPoint
    \/ PrintLastLn

Spec == Init /\ [][Next]_vars

(***************************************************************************)
(* Two surfaces of the same size filled independently, then both composed. *)
(***************************************************************************)
InitPair ==
    \E w \in 1..PairMaxW, h \in 1..PairMaxH, dark_pixel \in Dot, light_pixel \in Dot :
        /\ w * h <= PairMaxDots
        /\ grid = new(w, h, dark_pixel, light_pixel)
        /\ grid2 = new(w, h, dark_pixel, light_pixel)
        /\ height = h
        /\ light = light_pixel
        /\ pc = "pair_draw"
        /\ drawn = {}
        /\ drawn2 = {}
        /\ panic = None
        /\ call = [op |-> "new"]
        /\ image = NoImage
        /\ image2 = NoImage
        /\ li = 1
        /\ ci = 1
        /\ out = <<>>

\* An in-range draw_dark_pixel call on the first surface.
DrawFirst(x, y) ==
    /\ pc = "pair_draw"
    /\ InRange(x, y)
    /\ grid' = draw_dark_pixel(grid, x, y).self
    /\ drawn' = drawn \cup {<<x, y>>}
    /\ UNCHANGED <<pc, height, light, panic, call, image, li, ci, out,
                   grid2, drawn2, image2>>

\* An in-range draw_dark_pixel call on the second surface.
DrawSecond(x, y) ==
    /\ pc = "pair_draw"
    /\ InRange(x, y)
    /\ grid2' = draw_dark_pixel(grid2, x, y).self
    /\ drawn2' = drawn2 \cup {<<x, y>>}
    /\ UNCHANGED <<pc, grid, height, light, drawn, panic, call, image, li, ci,
                   out, image2>>

\* into_image on both surfaces.
ComposeBoth ==
    /\ pc = "pair_draw"
    /\ image' = into_image(grid).image
    /\ image2' = into_image(grid2).image
    /\ pc' = "pair_done"
    /\ UNCHANGED <<grid, height, light, drawn, panic, call, li, ci, out,
                   grid2, drawn2>>

NextPair ==
    \/ \E x \in 0..(PairMaxW - 1), y \in 0..(PairMaxH - 1) : DrawFirst(x, y)
    \/ \E x \in 0..(PairMaxW - 1), y \in 0..(PairMaxH - 1) : DrawSecond(x, y)
    \/ ComposeBoth

SpecPair == InitPair /\ [][NextPair]_vars

(***************************************************************************)
(* Properties                                                              *)
(***************************************************************************)
\* The pixel at (x, y) of the surface.
Pixel(x, y) == grid.dots[x + y * grid.width + 1]

\* into_image has returned an Image.
Converted == pc \in {"print_lines", "print_last", "done"}

\* The most recent call was draw_dark_pixel.
IsDraw(c) == c.op = "draw_dark_pixel"

\* C1: on a surface of width >= 1 and height >= 1 (Black/White or any other
\* dark and light pixel), after any in-range draws,
\* cell x of glyph row r of the Image has the pixel (x, 2r) as top and the
\* pixel (x, 2r+1) as bot, for every r < floor(h/2); and when h is odd, cell x
\* of last_line wraps the pixel (x, h-1).
C1_GlyphRowsPairPixels ==
    (Converted /\ grid.width >= 1 /\ height >= 1) =>
        /\ \A r \in 0..((height \div 2) - 1), x \in 0..(grid.width - 1) :
              /\ r + 1 \in DOMAIN image.lines
              /\ x + 1 \in DOMAIN image.lines[r + 1]
              /\ image.lines[r + 1][x + 1].top = Pixel(x, 2 * r)
              /\ image.lines[r + 1][x + 1].bot = Pixel(x, 2 * r + 1)
        /\ (height % 2 = 1) =>
              /\ image.last_line.some
              /\ \A x \in 0..(grid.width - 1) :
                    /\ x + 1 \in DOMAIN image.last_line.val
                    /\ image.last_line.val[x + 1][1] = Pixel(x, height - 1)

\* C1 witness: w=1, h=3, dark at (0,0) and (0,2): one glyph row (Black,
\* White) and the half-row [Black].
C1_Witness ==
    /\ Converted
    /\ grid.width = 1 /\ height = 3
    /\ grid.dark = Black /\ light = White
    /\ drawn = {<<0, 0>>, <<0, 2>>}
    /\ image.lines = << <<[top |-> Black, bot |-> White]>> >>
    /\ image.last_line = Some(<< <<Black>> >>)

\* C2: composing a surface whose width or height is zero completes without
\* a fault and yields no glyph rows and no half-row.
C2_DegenerateComposes ==
    ((grid.width = 0 \/ height = 0) /\ call.op = "into_image") =>
        /\ panic = None
        /\ pc # "panicked"
        /\ image.lines = <<>>
        /\ image.last_line = None

\* C3: a draw_dark_pixel(x, y) call with x >= w or y >= h panics with the
\* out-of-bounds message and leaves the whole grid as it was.
C3_OutOfRangeStep ==
    (pc = "draw" /\ IsDraw(call') /\ (call'.x >= grid.width \/ call'.y >= height)) =>
        /\ pc' = "panicked"
        /\ panic' = Some(OutOfBounds)
        /\ grid' = grid

C3_OutOfRangeFaults == [][C3_OutOfRangeStep]_vars

\* C3 witness: a call with x >= w whose index x + y*w lies inside the
\* buffer has panicked, on a surface that already holds dark pixels.
C3_Witness ==
    /\ pc = "panicked"
    /\ panic = Some(OutOfBounds)
    /\ IsDraw(call)
    /\ call.x >= grid.width
    /\ call.x + call.y * grid.width < grid.width * height
    /\ drawn # {}

\* C4: for width >= 1, glyph rows * 2 + (1 if last_line) = h, last_line is
\* present iff h is odd, every glyph row has w cells and so has last_line.
C4_ImageShape ==
    (Converted /\ grid.width >= 1) =>
        /\ Len(image.lines) * 2 + (IF image.last_line.some THEN 1 ELSE 0) = height
        /\ image.last_line.some <=> (height % 2 = 1)
        /\ \A k \in 1..Len(image.lines) : Len(image.lines[k]) = grid.width
        /\ image.last_line.some => Len(image.last_line.val) = grid.width

\* C4 witness: a surface of height 1 with a dark pixel gave no glyph row and
\* one half-row; (the even case is every state of height 2 or 4).
C4_Witness ==
    /\ Converted
    /\ grid.width = 2 /\ height = 1
    /\ drawn # {}
    /\ Len(image.lines) = 0
    /\ image.last_line.some

\* C5: a draw_dark_pixel(x, y) call with x < w and y < h does not panic,
\* sets slot x + y*w to the grid's dark pixel and changes nothing else.
C5_InRangeStep ==
    (pc = "draw" /\ IsDraw(call') /\ call'.x < grid.width /\ call'.y < height) =>
        /\ pc' = "draw"
        /\ panic' = None
        /\ grid'.width = grid.width
        /\ grid'.dark = grid.dark
        /\ Len(grid'.dots) = Len(grid.dots)
        /\ \A k \in 1..Len(grid.dots) :
              grid'.dots[k] = IF k = call'.x + call'.y * grid.width + 1
                              THEN grid.dark
                              ELSE grid.dots[k]

C5_InRangeDraws == [][C5_InRangeStep]_vars

\* C5 witness: the last pixel of a 2 x 4 surface was drawn after others,
\* with a dark pixel that differs from the light one.
C5_Witness ==
    /\ pc = "draw"
    /\ IsDraw(call)
    /\ grid.width = 2 /\ height = 4
    /\ call.x = 1 /\ call.y = 3
    /\ grid.dark # light
    /\ grid.dots[8] = grid.dark
    /\ Cardinality(drawn) >= 2

\* C6: a fresh Black/White surface of width > 0 and height > 0 composes to
\* floor(h/2) glyph rows of w (White, White) cells, each mapping to a space,
\* and to a half-row iff h is odd, of w White cells mapping to a space.
C6_FreshSurfaceIsBlank ==
    (Converted /\ drawn = {} /\ grid.width > 0 /\ height > 0
        /\ grid.dark = Black /\ light = White) =>
        /\ Len(image.lines) = height \div 2
        /\ \A k \in 1..Len(image.lines) :
              /\ Len(image.lines[k]) = grid.width
              /\ \A x \in 1..Len(image.lines[k]) :
                    /\ image.lines[k][x] = [top |-> White, bot |-> White]
                    /\ Point_to_char(image.lines[k][x]) = Space
        /\ image.last_line.some <=> (height % 2 = 1)
        /\ image.last_line.some =>
              /\ Len(image.last_line.val) = grid.width
              /\ \A x \in 1..Len(image.last_line.val) :
                    /\ image.last_line.val[x] = <<White>>
                    /\ HalfPoint_to_char(image.last_line.val[x]) = Space

\* C6 witness: a fresh 2 x 3 Black/White surface was composed.
C6_Witness ==
    /\ Converted
    /\ drawn = {}
    /\ grid.width = 2 /\ height = 3
    /\ grid.dark = Black /\ light = White
    /\ Len(image.lines) = 1
    /\ image.last_line.some

\* The glyph the mapping table gives for a pair of dots.
TableGlyph(top, bot) ==
    IF top = Black THEN (IF bot = Black THEN 9608 ELSE 9600)
    ELSE (IF bot = Black THEN 9604 ELSE 32)

\* C7: every character written for a cell is the one the table gives for
\* the cell's dots: full block, upper half, lower half, space, all four
\* distinct; a half cell gives upper half for Black and space for White.
C7_GlyphMapping ==
    /\ Cardinality({FullBlock, UpperHalf, LowerHalf, Space}) = 4
    /\ (pc = "print_lines" /\ li <= Len(image.lines)) =>
          \A c \in 1..(ci - 1) :
              out[Len(out) - (ci - 1) + c]
                  = TableGlyph(image.lines[li][c].top, image.lines[li][c].bot)
    /\ (pc = "print_last") =>
          \A c \in 1..(ci - 1) :
              /\ out[Len(out) - (ci - 1) + c]
                    = (IF image.last_line.val[c][1] = Black THEN 9600 ELSE 32)
              /\ out[Len(out) - (ci - 1) + c] \notin {LowerHalf, FullBlock}

\* C7 witness: a row holding an upper-half and a lower-half cell has been
\* written, and so has a Black half cell.
C7_Witness ==
    /\ pc = "print_last"
    /\ ci = 3
    /\ out = <<9600, 9604, 10, 32, 9600>>

\* The w-by-h surface's output: one line per pair of rows, then one line
\* for an unpaired last row.
ExpectedLine(r) ==
    [x \in 1..grid.width |->
        Point_to_char([top |-> Pixel(x - 1, 2 * r), bot |-> Pixel(x - 1, 2 * r + 1)])]
    \o <<Newline>>

ExpectedLastLine ==
    [x \in 1..grid.width |-> HalfPoint_to_char(<<Pixel(x - 1, height - 1)>>)]
    \o <<Newline>>

RECURSIVE ExpectedLines(_)
ExpectedLines(n) ==
    IF n = 0 THEN <<>> ELSE ExpectedLines(n - 1) \o ExpectedLine(n - 1)

ExpectedOutput ==
    ExpectedLines(height \div 2)
    \o (IF height % 2 = 1 THEN ExpectedLastLine ELSE <<>>)

IsPrefix(s, t) == Len(s) <= Len(t) /\ SubSeq(t, 1, Len(s)) = s

Count(s, c) == Cardinality({k \in 1..Len(s) : s[k] = c})

\* C8: for width >= 1 the output is at every moment a prefix of the glyph
\* rows in row-pair order, each row's w characters followed by a line
\* terminator, then the half-row's line; when main returns the output is
\* all of it and holds floor(h/2) + (h mod 2) line terminators.
C8_EmissionOrder ==
    (Converted /\ grid.width >= 1) =>
        /\ IsPrefix(out, ExpectedOutput)
        /\ (pc = "done") =>
              /\ out = ExpectedOutput
              /\ Count(out, Newline) = (height \div 2) + (height % 2)
              /\ Len(out) = ((height \div 2) + (height % 2)) * (grid.width + 1)

\* C8 witness: a 2 x 3 surface with dark pixels at (0,0), (1,1) and (1,2)
\* was printed as two lines.
C8_Witness ==
    /\ pc = "done"
    /\ grid.width = 2 /\ height = 3
    /\ grid.dark = Black /\ light = White
    /\ drawn = {<<0, 0>>, <<1, 1>>, <<1, 2>>}
    /\ out = <<9600, 9604, 10, 32, 9600, 10>>

\* C9: on a Black/White surface the buffer has w*h slots and the pixel at
\* (x, y) is Black iff an in-range draw_dark_pixel call targeted (x, y); and
\* no step turns a Black pixel White.
C9_State ==
    (grid.dark = Black /\ light = White) =>
        /\ Len(grid.dots) = grid.width * height
        /\ \A x \in 0..(grid.width - 1), y \in 0..(height - 1) :
              (Pixel(x, y) = Black) <=> (<<x, y>> \in drawn)

C9_Step ==
    (grid.dark = Black /\ light = White) =>
        /\ Len(grid'.dots) = Len(grid.dots)
        /\ \A k \in 1..Len(grid.dots) :
              grid.dots[k] = Black => grid'.dots[k] = Black

C9_BlackIffDrawn == [](C9_State) /\ [][C9_Step]_vars

\* C9 witness: after some in-range draws a faulting call ended the run, with
\* both Black and White pixels in the buffer.
C9_Witness ==
    /\ pc = "panicked"
    /\ grid.dark = Black /\ light = White
    /\ grid.width = 2 /\ height = 2
    /\ drawn = {<<1, 0>>, <<0, 1>>}
    /\ grid.dots = <<White, Black, Black, White>>

\* C10: two surfaces of the same size whose in-range draws targeted the
\* same set of coordinates, in any order and with any repetition, hold the
\* same pixels and compose to the same Image.
C10_SameTargetsSameImage ==
    (drawn = drawn2) =>
        /\ grid = grid2
        /\ (pc = "pair_done") => image = image2

\* C10 witness: both surfaces were drawn at the same three coordinates and
\* composed.
C10_Witness ==
    /\ pc = "pair_done"
    /\ grid.width = 2 /\ height = 2
    /\ grid.dark # light
    /\ drawn = drawn2
    /\ Cardinality(drawn) = 3
    /\ Len(image.lines) = 1

====
